---- MODULE Spec2Model ----
(***************************************************************************)
(* Lyric timing and synchronisation engine of lyric-web:                   *)
(*   utils/lyricParser.ts  (parser, normalizer, merger, locator)           *)
(*   stores/lyricStore.ts  (processing cache around the pipeline)          *)
(*   stores/storageStore.ts (debounced localStorage persistence)           *)
(*   stores/uiStore.ts     (dialog flags, persisted like the lyric store)  *)
(*   hooks/useKeyboardHandlers.ts (the playback tick)                      *)
(* Times are integer milliseconds.  Texts are tuples of one-character      *)
(* strings so that trim and join are computed, not assumed.                *)
(***************************************************************************)
EXTENDS Integers, Sequences, FiniteSets, TLC

(***************************************************************************)
(* Bounds of the explored input space.                                     *)
(***************************************************************************)
MaxWords == 2
MaxLines == 1
MaxLocLines == 3
MaxAllocs == 2
MaxLoads == 1

(***************************************************************************)
(* lodash / JavaScript helpers, as lyricParser.ts uses them.               *)
(***************************************************************************)
\* lodash max([a, b]) on two numbers
Max2(a, b) == IF a >= b THEN a ELSE b

\* JavaScript `x || y` on numbers: 0 is falsy
JsOr(x, y) == IF x # 0 THEN x ELSE y

\* lodash first / last read through get(obj, field, 0)
FirstStart(words) == IF Len(words) = 0 THEN 0 ELSE words[1].startTime
LastEnd(words) == IF Len(words) = 0 THEN 0 ELSE words[Len(words)].endTime

(***************************************************************************)
(* normalizeTiming (lyricParser.ts:132-168)                                *)
(***************************************************************************)
MIN_WORD_DURATION == 300
MIN_GAP == 100

\* variant of step 1 that keeps the source endTime + delay (no minimum duration)
ApplyDelay_NoMinDuration(word, delayMs) ==
  [word EXCEPT !.startTime = word.startTime + delayMs,
               !.endTime = word.endTime + delayMs]

\* Step 1 (lines 135-145): delay offset and minimum duration of one word
ApplyDelay(word, delayMs) ==
  LET startTime == word.startTime + delayMs
      endTime == JsOr(Max2(word.endTime + delayMs, startTime + MIN_WORD_DURATION),
                      startTime + MIN_WORD_DURATION)
  IN [word EXCEPT !.startTime = startTime, !.endTime = endTime]

\* Step 2 (lines 148-158): minimum gap to the previous word of step 1
EnforceGap(words, wordIndex) ==
  IF wordIndex = 1 THEN words[wordIndex]
  ELSE [words[wordIndex] EXCEPT !.startTime =
          JsOr(Max2(words[wordIndex].startTime, words[wordIndex - 1].endTime + MIN_GAP),
               words[wordIndex].startTime)]

\* variant that keeps the bounds the line came with
normalizeLine_KeepsLineBounds(lyric, delayMs) ==
  LET words == [i \in 1..Len(lyric.words) |-> ApplyDelay(lyric.words[i], delayMs)]
      normalizedWords == [i \in 1..Len(words) |-> EnforceGap(words, i)]
  IN [lyric EXCEPT !.words = normalizedWords]

normalizeLine(lyric, delayMs) ==
  LET words == [i \in 1..Len(lyric.words) |-> ApplyDelay(lyric.words[i], delayMs)]
      normalizedWords == [i \in 1..Len(words) |-> EnforceGap(words, i)]
  IN [lyric EXCEPT !.words = normalizedWords,
                   !.startTime = FirstStart(normalizedWords),
                   !.endTime = LastEnd(normalizedWords)]

normalizeTiming(lyrics, delayMs) ==
  [l \in 1..Len(lyrics) |-> normalizeLine(lyrics[l], delayMs)]

(***************************************************************************)
(* parseLyricDataOptimized (lyricParser.ts:59-101)                         *)
(***************************************************************************)
\* lodash trim on a text: drop leading and trailing blanks
RECURSIVE TrimStart(_)
TrimStart(text) ==
  IF Len(text) = 0 THEN text
  ELSE IF Head(text) = " " THEN TrimStart(Tail(text))
  ELSE text

RECURSIVE TrimEnd(_)
TrimEnd(text) ==
  IF Len(text) = 0 THEN text
  ELSE IF text[Len(text)] = " " THEN TrimEnd(SubSeq(text, 1, Len(text) - 1))
  ELSE text

Trim(text) == TrimEnd(TrimStart(text))

\* lodash has(obj, key) / get(obj, key, default) on a raw record
Has(obj, key) == key \in DOMAIN obj
Get(obj, key, default) == IF key \in DOMAIN obj THEN obj[key] ELSE default

\* lodash join(map(words, 'text'), ' ')
RECURSIVE JoinText(_)
JoinText(words) ==
  IF Len(words) = 0 THEN <<>>
  ELSE IF Len(words) = 1 THEN words[1].text
  ELSE words[1].text \o <<" ">> \o JoinText(Tail(words))

\* Step 3a (lines 74-76): a word is kept when it has non-blank data
HasTextData(word) == Has(word, "data") /\ Len(Trim(Get(word, "data", <<>>))) > 0

\* Step 3b (lines 81-85): endTime defaults to startTime + 500
ToWordTiming(word) ==
  [text |-> Trim(Get(word, "data", <<>>)),
   startTime |-> Get(word, "startTime", 0),
   endTime |-> Get(word, "endTime", Get(word, "startTime", 0) + 500)]

\* Steps 3a-3c for one sentence (lines 72-98); <<>> stands for null
ParseSentence(sentence) ==
  LET words == SelectSeq(Get(sentence, "words", <<>>), HasTextData)
      wordTimings == [i \in 1..Len(words) |-> ToWordTiming(words[i])]
  IN IF Len(words) = 0 THEN <<>>
     ELSE << [text |-> JoinText(wordTimings),
              words |-> wordTimings,
              startTime |-> FirstStart(wordTimings),
              endTime |-> LastEnd(wordTimings)] >>

\* compact(map(filter(sentences, ...), ...)) (lines 69-100)
RECURSIVE ParseSentences(_)
ParseSentences(sentences) ==
  IF Len(sentences) = 0 THEN <<>>
  ELSE ParseSentence(Head(sentences)) \o ParseSentences(Tail(sentences))

parseLyricDataOptimized(lyricData) ==
  IF Get(lyricData, "err", 1) # 0 \/ ~Has(lyricData.data, "sentences") THEN <<>>
  ELSE ParseSentences(lyricData.data.sentences)

(***************************************************************************)
(* parseLyricData (lyricParser.ts:296-351), the strict parser.  <<>> stands *)
(* for the null that compact removes.                                      *)
(***************************************************************************)
\* variant of the word validation that accepts endTime = startTime
StrictWord_AllowsZeroDuration(word) ==
  LET startTime == Get(word, "startTime", 0)
      endTime == Get(word, "endTime", 0)
      text == Trim(Get(word, "data", <<>>))
  IN IF Len(text) = 0 \/ startTime < 0 \/ endTime < startTime THEN <<>>
     ELSE << [text |-> text, startTime |-> startTime, endTime |-> endTime] >>

\* Step 3 for one word (lines 314-331)
StrictWord(word) ==
  LET startTime == Get(word, "startTime", 0)
      endTime == Get(word, "endTime", 0)
      text == Trim(Get(word, "data", <<>>))
  IN IF Len(text) = 0 \/ startTime < 0 \/ endTime <= startTime THEN <<>>
     ELSE << [text |-> text, startTime |-> startTime, endTime |-> endTime] >>

\* compact(map(words, ...)) (lines 313-332)
RECURSIVE StrictWordTimings(_)
StrictWordTimings(words) ==
  IF Len(words) = 0 THEN <<>>
  ELSE StrictWord(Head(words)) \o StrictWordTimings(Tail(words))

\* one sentence (lines 305-348)
StrictSentence(sentence) ==
  LET words == Get(sentence, "words", <<>>)
      wordTimings == StrictWordTimings(words)
  IN IF Len(words) = 0 \/ Len(wordTimings) = 0 THEN <<>>
     ELSE << [text |-> JoinText(wordTimings),
              words |-> wordTimings,
              startTime |-> FirstStart(wordTimings),
              endTime |-> LastEnd(wordTimings)] >>

\* compact(map(sentences, ...)) (lines 304-349)
RECURSIVE StrictSentences(_)
StrictSentences(sentences) ==
  IF Len(sentences) = 0 THEN <<>>
  ELSE StrictSentence(Head(sentences)) \o StrictSentences(Tail(sentences))

parseLyricData(lyricData) ==
  IF ~Has(lyricData, "sentences") THEN <<>>
  ELSE StrictSentences(Get(lyricData, "sentences", <<>>))

(***************************************************************************)
(* mergeSentenceWords (lyricParser.ts:490-514)                             *)
(***************************************************************************)
\* variant that keeps the first word as the single word
mergeLine_FirstWordOnly(lyric) ==
  IF Len(lyric.words) <= 1 THEN lyric
  ELSE [lyric EXCEPT !.words = <<lyric.words[1]>>,
                     !.startTime = lyric.words[1].startTime,
                     !.endTime = lyric.words[1].endTime]

mergeLine(lyric) ==
  IF Len(lyric.words) <= 1 THEN lyric
  ELSE LET mergedWord == [text |-> lyric.text,
                          startTime |-> FirstStart(lyric.words),
                          endTime |-> LastEnd(lyric.words)]
       IN [lyric EXCEPT !.words = <<mergedWord>>,
                        !.startTime = mergedWord.startTime,
                        !.endTime = mergedWord.endTime]

\* variant that drops the lines it has nothing to merge in
mergeSentenceWords_DropsShortLines(lyrics) ==
  LET HasSeveralWords(lyric) == Len(lyric.words) > 1
      merged == SelectSeq(lyrics, HasSeveralWords)
  IN [l \in 1..Len(merged) |-> mergeLine(merged[l])]

mergeSentenceWords(lyrics) ==
  IF Len(lyrics) = 0 THEN <<>>
  ELSE [l \in 1..Len(lyrics) |-> mergeLine(lyrics[l])]

(***************************************************************************)
(* toggleSentenceMerge (lyricParser.ts:521-535)                            *)
(***************************************************************************)
\* Step 1 (line 525): every line has exactly one word
IsMerged(lyrics) == \A l \in 1..Len(lyrics) : Len(lyrics[l].words) = 1

\* variant that merges whatever the current mode is
toggleSentenceMerge_AlwaysMerges(lyrics, originalLyrics) ==
  IF Len(lyrics) = 0 \/ Len(originalLyrics) = 0 THEN lyrics
  ELSE mergeSentenceWords(lyrics)

toggleSentenceMerge(lyrics, originalLyrics) ==
  IF Len(lyrics) = 0 \/ Len(originalLyrics) = 0 THEN lyrics
  ELSE IF IsMerged(lyrics) THEN originalLyrics
  ELSE mergeSentenceWords(lyrics)

(***************************************************************************)
(* getCurrentLyricIndex (lyricParser.ts:209-230).  Indices are 0-based as  *)
(* in the source: index i addresses lyrics[i + 1] here.                    *)
(***************************************************************************)
\* variant with a half-open interval
ContainsTime_HalfOpen(lyric, currentTimeMs) ==
  currentTimeMs >= lyric.startTime /\ currentTimeMs < lyric.endTime

\* predicate of findIndex (lines 217-220): closed interval
ContainsTime(lyric, currentTimeMs) ==
  currentTimeMs >= lyric.startTime /\ currentTimeMs <= lyric.endTime

\* variant that takes every line as started
StartedBy_Always(lyric, currentTimeMs) == TRUE

\* predicate of findLastIndex (lines 225-227)
StartedBy(lyric, currentTimeMs) == currentTimeMs >= lyric.startTime

\* lodash findIndex: scan upwards from position i, -1 when nothing matches
RECURSIVE FindIndexFrom(_, _, _)
FindIndexFrom(lyrics, currentTimeMs, i) ==
  IF i > Len(lyrics) THEN -1
  ELSE IF ContainsTime(lyrics[i], currentTimeMs) THEN i - 1
  ELSE FindIndexFrom(lyrics, currentTimeMs, i + 1)

\* variant that scans for the first started line instead of the last
RECURSIVE FindFirstStartedFrom(_, _, _)
FindFirstStartedFrom(lyrics, currentTimeMs, i) ==
  IF i > Len(lyrics) THEN -1
  ELSE IF StartedBy(lyrics[i], currentTimeMs) THEN i - 1
  ELSE FindFirstStartedFrom(lyrics, currentTimeMs, i + 1)

FindLastIndexFrom_First(lyrics, currentTimeMs, i) ==
  FindFirstStartedFrom(lyrics, currentTimeMs, 1)

\* lodash findLastIndex: scan downwards from position i
RECURSIVE FindLastIndexFrom(_, _, _)
FindLastIndexFrom(lyrics, currentTimeMs, i) ==
  IF i < 1 THEN -1
  ELSE IF StartedBy(lyrics[i], currentTimeMs) THEN i - 1
  ELSE FindLastIndexFrom(lyrics, currentTimeMs, i - 1)

getCurrentLyricIndex(lyrics, currentTimeMs) ==
  LET firstStart == IF Len(lyrics) = 0 THEN 0 ELSE lyrics[1].startTime
      foundIndex == FindIndexFrom(lyrics, currentTimeMs, 1)
      beforeIndex == FindLastIndexFrom(lyrics, currentTimeMs, Len(lyrics))
  IN IF currentTimeMs < firstStart THEN -1
     ELSE IF foundIndex # -1 THEN foundIndex
     ELSE JsOr(Max2(0, beforeIndex), 0)

(***************************************************************************)
(* getCurrentWordIndex (lyricParser.ts:237-252), 0-based like the source.  *)
(* Its findIndex predicate reads startTime and endTime as the line         *)
(* predicate does.                                                         *)
(***************************************************************************)
getCurrentWordIndex(lyric, currentTimeMs) ==
  LET words == Get(lyric, "words", <<>>)
      foundIndex == FindIndexFrom(words, currentTimeMs, 1)
  IN IF foundIndex # -1 THEN foundIndex
     ELSE IF currentTimeMs < FirstStart(words) THEN -1
     ELSE Len(words)

(***************************************************************************)
(* syncLyrics (lyricParser.ts:360-398): the line that has started last and *)
(* the word position inside it.                                            *)
(***************************************************************************)
syncLyrics(lyrics, time) ==
  LET beforeIndex == FindLastIndexFrom(lyrics, time, Len(lyrics))
  IN IF beforeIndex = -1
     THEN [index |-> 0, currentWordIndex |-> -1]
     ELSE [index |-> beforeIndex,
           currentWordIndex |-> getCurrentWordIndex(lyrics[beforeIndex + 1], time)]

(***************************************************************************)
(* State                                                                   *)
(***************************************************************************)
VARIABLES
  nLyrics,      \* normalizer or merger run: input lines
  nDelay,       \* normalizer run: delayMs argument
  nResult,      \* normalizer or merger run: returned lines
  nPc,          \* run: "ready" before the call, "done" after normalizeTiming,
                \*      "merged" after mergeSentenceWords
  locLines,     \* locator: the fixed processed timeline
  locTime,      \* locator: timestamp of the latest tick
  locIndex,     \* locator: index returned for the latest tick
  locPrevIndex, \* locator: index returned for the tick before
  locCalls,     \* locator: ticks handled so far (2 stands for two or more)
  wLine,        \* word locator: the line queried
  wTime,        \* word locator: timestamp of the latest query
  wIndex,       \* word locator: index returned for the latest query
  wCalls,       \* word locator: queries made so far (1 stands for one or more)
  pData,        \* strict parser run: the lyricData argument
  pResult,      \* strict parser run: returned lines
  pPc,          \* strict parser run: "ready" before the call, "done" after
  currentLyricData,  \* lyric store: raw data object in use, or Null
  lyricDelay,        \* lyric store: delay in ms
  mergeSentences,    \* lyric store: merge flag
  customLyricData,   \* lyric store: uploaded data [data, fileName], or Null
  parsedCache,       \* lyric store: the single cache slot, or Null
  isInitialized,     \* storage store: initializeStorage has completed
  localStorage,      \* browser storage: store name -> serialized value or Null
  timeouts,          \* debouncedSync: store name -> data of the pending timer or Null
  lastSyncedData,    \* debouncedSync: store name -> last serialized value or Null
  storageFull,       \* browser storage: a further value exceeds the space left
  returned,          \* array returned by the latest getProcessedLyrics call
  sameAsPrev,        \* the latest call returned the very array of the call before it
  getsSinceOp,       \* getProcessedLyrics calls since the last other store operation
  justCleared,       \* the latest lyric-store operation is a clearCache that
                     \* dropped a cached timeline
  allocs,            \* timeline arrays created by getProcessedLyrics so far
  loads,             \* loadFromStorage calls that deserialized a value so far
  currentTime,       \* audio store: playback position in ms
  playLinesId,       \* playback: identity of the timeline the latest tick read
  playLyricIndex,    \* playback: line index of the latest tick
  playSync,          \* playback: syncLyrics result at the latest position, or Null
  answers,           \* playback: position -> first answers given for it, or Null
  showUpload,        \* ui store: upload dialog open
  showSettings,      \* ui store: settings dialog open
  showAudioPlayer,   \* ui store: audio player dialog open
  uiJustReset        \* resetAll is the latest ui-store operation

lyricVars == <<currentLyricData, lyricDelay, mergeSentences, customLyricData, parsedCache>>
storageVars == <<isInitialized, localStorage, timeouts, lastSyncedData, storageFull>>
obsVars == <<returned, sameAsPrev, getsSinceOp, justCleared, allocs, loads>>
normVars == <<nLyrics, nDelay, nResult, nPc>>
locVars == <<locLines, locTime, locIndex, locPrevIndex, locCalls>>
wordVars == <<wLine, wTime, wIndex, wCalls>>
parseVars == <<pData, pResult, pPc>>
playVars == <<currentTime, playLinesId, playLyricIndex, playSync, answers>>
uiVars == <<showUpload, showSettings, showAudioPlayer, uiJustReset>>
utilVars == <<normVars, locVars, wordVars, parseVars>>
viewVars == <<playVars, uiVars>>
storeVars == <<lyricVars, storageVars, obsVars, viewVars>>
vars == <<utilVars, storeVars>>

\* JavaScript null
Null == [null |-> TRUE]

StoreNames == {"lyric", "ui"}

\* playback positions (ms) the audio transport reports
PlayPositions == {0, 350, 1000}

\* the stores as constructed (lyricStore.ts:48-58, storageStore.ts:279-324)
StoresIdle ==
  /\ currentLyricData = Null
  /\ lyricDelay = 0
  /\ mergeSentences = FALSE
  /\ customLyricData = Null
  /\ parsedCache = Null
  /\ isInitialized = FALSE
  /\ localStorage = [n \in StoreNames |-> Null]
  /\ timeouts = [n \in StoreNames |-> Null]
  /\ lastSyncedData = [n \in StoreNames |-> Null]
  /\ storageFull = FALSE
  /\ returned = Null
  /\ sameAsPrev = FALSE
  /\ getsSinceOp = 0
  /\ justCleared = FALSE
  /\ allocs = 0
  /\ loads = 0
  /\ currentTime = 0
  /\ playLinesId = 0
  /\ playLyricIndex = -1
  /\ playSync = Null
  /\ answers = [t \in PlayPositions |-> Null]
  /\ showUpload = FALSE
  /\ showSettings = FALSE
  /\ showAudioPlayer = FALSE
  /\ uiJustReset = FALSE

\* the locator part before any tick
LocIdle ==
  /\ locLines = <<>>
  /\ locTime = 0
  /\ locIndex = -1
  /\ locPrevIndex = -1
  /\ locCalls = 0

\* the word locator part before any query
WordIdle ==
  /\ wLine = [words |-> <<>>]
  /\ wTime = 0
  /\ wIndex = -1
  /\ wCalls = 0

\* the strict parser part before any run
ParseIdle ==
  /\ pData = Null
  /\ pResult = <<>>
  /\ pPc = "ready"

\* the normalizer part before any run
NormIdle ==
  /\ nLyrics = <<>>
  /\ nDelay = 0
  /\ nResult = <<>>
  /\ nPc = "ready"

(***************************************************************************)
(* Input space of the normalizer                                           *)
(***************************************************************************)
StartTimes == {0, 50}
EndTimes == {100, 150, 400}
Delays == {-400, 0, 200}

Letters == <<"a", "b", "c", "d">>
WordText(i) == <<Letters[((i - 1) % Len(Letters)) + 1]>>

\* word sequences of length n: word i carries a fixed text
WordSeqs(n) ==
  { [i \in 1..n |-> [text |-> WordText(i), startTime |-> f[i][1], endTime |-> f[i][2]]] :
      f \in [1..n -> StartTimes \X EndTimes] }

\* a parsed line over a word sequence (bounds as the parsers set them)
LineOf(words) ==
  [text |-> JoinText(words), words |-> words,
   startTime |-> FirstStart(words), endTime |-> LastEnd(words)]

InputLines == { LineOf(ws) : ws \in UNION { WordSeqs(n) : n \in 1..MaxWords } }

\* a line whose first word outlasts the two that follow it
LongFirstWordLine ==
  LineOf(<< [text |-> <<"a">>, startTime |-> 0, endTime |-> 400],
            [text |-> <<"b">>, startTime |-> 0, endTime |-> 100],
            [text |-> <<"c">>, startTime |-> 50, endTime |-> 150] >>)

\* a short line followed by a longer one
TwoLines ==
  << LineOf(<< [text |-> <<"d">>, startTime |-> 0, endTime |-> 100] >>),
     LongFirstWordLine >>

InputLyrics ==
  UNION { [1..n -> InputLines] : n \in 1..MaxLines }
    \cup { <<LongFirstWordLine>>, TwoLines }

InitNormalize ==
  /\ nLyrics \in InputLyrics
  /\ nDelay \in Delays
  /\ nResult = <<>>
  /\ nPc = "ready"
  /\ LocIdle
  /\ WordIdle
  /\ ParseIdle
  /\ StoresIdle

CallNormalizeTiming ==
  /\ nPc = "ready"
  /\ nResult' = normalizeTiming(nLyrics, nDelay)
  /\ nPc' = "done"
  /\ UNCHANGED <<nLyrics, nDelay, locVars, wordVars, parseVars, storeVars>>

CallMergeSentenceWords ==
  /\ nPc = "ready"
  /\ nResult' = mergeSentenceWords(nLyrics)
  /\ nPc' = "merged"
  /\ UNCHANGED <<nLyrics, nDelay, locVars, wordVars, parseVars, storeVars>>

\* the display mode is toggled, at most twice, on the timeline shown last
CallToggleSentenceMerge ==
  /\ nPc \in {"ready", "toggled"}
  /\ nResult' = toggleSentenceMerge(IF nPc = "ready" THEN nLyrics ELSE nResult, nLyrics)
  /\ nPc' = IF nPc = "ready" THEN "toggled" ELSE "toggled twice"
  /\ UNCHANGED <<nLyrics, nDelay, locVars, wordVars, parseVars, storeVars>>

NextNormalize ==
  \/ CallNormalizeTiming
  \/ CallMergeSentenceWords
  \/ CallToggleSentenceMerge

SpecNormalize == InitNormalize /\ [][NextNormalize]_vars

(***************************************************************************)
(* Properties of normalizeTiming                                           *)
(***************************************************************************)
WordPositions(lyrics) ==
  UNION { { <<l, w>> : w \in 1..Len(lyrics[l].words) } : l \in 1..Len(lyrics) }

\* C4: every word of normalizeTiming's output lasts at least 300 ms
\* (endTime - startTime >= 300), words moved by the gap pass included.
C4_MinimumDuration ==
  nPc = "done" =>
    \A p \in WordPositions(nResult) :
      LET word == nResult[p[1]].words[p[2]]
      IN word.endTime - word.startTime >= 300

\* C5: for every delay in [-10000, 10000], consecutive words (i-1, i) of an
\* output line satisfy startTime_i >= endTime_{i-1} + 100.
C5_MinimumGap ==
  (nPc = "done" /\ nDelay >= -10000 /\ nDelay <= 10000) =>
    \A p \in WordPositions(nResult) :
      p[2] > 1 =>
        nResult[p[1]].words[p[2]].startTime >=
          nResult[p[1]].words[p[2] - 1].endTime + 100

\* Scenario A of the specification: one line, a = (0, 100), b = (50, 150)
ScenarioA ==
  << LineOf(<< [text |-> <<"a">>, startTime |-> 0, endTime |-> 100],
               [text |-> <<"b">>, startTime |-> 50, endTime |-> 150] >>) >>

ScenarioARun == nPc = "done" /\ nLyrics = ScenarioA /\ nDelay = 0

C16_MergedLine ==
  nPc = "merged" =>
    /\ Len(nResult) = Len(nLyrics)
    /\ \A l \in 1..Len(nLyrics) :
         Len(nLyrics[l].words) >= 2 =>
           LET before == nLyrics[l]
               after == nResult[l]
           IN /\ Len(after.words) = 1
              /\ after.words[1].text = before.text
              /\ after.words[1].startTime = before.words[1].startTime
              /\ after.words[1].endTime = before.words[Len(before.words)].endTime
              /\ after.startTime = before.startTime
              /\ after.endTime = before.endTime

C16_Witness ==
  /\ nPc = "merged"
  /\ Len(nLyrics[1].words) = 2
  /\ nLyrics[1].words[1].endTime = 100
  /\ nLyrics[1].words[2].startTime = 50
  /\ nResult[1].words = << [text |-> <<"a", " ", "b">>, startTime |-> 0, endTime |-> 400] >>

(***************************************************************************)
(* Order, shift and frame properties of the two transformations            *)
(***************************************************************************)
\* the word startTimes of every line never decrease along the line
StartsInOrder(lyrics) ==
  \A p \in WordPositions(lyrics) :
    p[2] > 1 =>
      lyrics[p[1]].words[p[2] - 1].startTime <= lyrics[p[1]].words[p[2]].startTime

\* C22: if the word startTimes of every source line are non-decreasing, the
\* word startTimes of every line of normalizeTiming's output are still
\* non-decreasing, for every delay.
C22_WordOrderPreserved ==
  (nPc = "done" /\ StartsInOrder(nLyrics)) => StartsInOrder(nResult)

\* d added to the startTime and endTime of every word and line
ShiftWord(word, d) ==
  [word EXCEPT !.startTime = word.startTime + d, !.endTime = word.endTime + d]

Shifted(lyrics, d) ==
  [l \in 1..Len(lyrics) |->
     [lyrics[l] EXCEPT
        !.words = [w \in 1..Len(lyrics[l].words) |-> ShiftWord(lyrics[l].words[w], d)],
        !.startTime = lyrics[l].startTime + d,
        !.endTime = lyrics[l].endTime + d]]

\* C23: the delay is a pure global shift: normalizeTiming(lines, d) equals
\* normalizeTiming(lines, 0) with d added to the startTime and endTime of
\* every word and every line, also when a shifted time is zero or negative.
C23_DelayIsGlobalShift ==
  nPc = "done" => nResult = Shifted(normalizeTiming(nLyrics, 0), nDelay)

\* C24: normalizeTiming and mergeSentenceWords change timings and word lists
\* only: the output has the same number of lines in the same order and each
\* line keeps its text.
C24_LinesAndTextsKept ==
  nPc \in {"done", "merged"} =>
    /\ Len(nResult) = Len(nLyrics)
    /\ \A l \in 1..Len(nLyrics) : nResult[l].text = nLyrics[l].text

\* two lines with different texts went through the merger, which rewrote
\* the word list of the second
C24_Witness ==
  /\ nPc = "merged"
  /\ nLyrics = TwoLines
  /\ nLyrics[1].text # nLyrics[2].text
  /\ nResult[2].words # nLyrics[2].words

\* C28: for every original timeline in which each line has at least one
\* word, toggleSentenceMerge(toggleSentenceMerge(original, original), original)
\* returns the original timeline.
C28_ToggleTwiceRestores ==
  ( /\ nPc = "toggled twice"
    /\ \A l \in 1..Len(nLyrics) : Len(nLyrics[l].words) >= 1 ) =>
    nResult = nLyrics

\* the first toggle merged a line of several words, the second undid it
C28_Witness ==
  /\ nPc = "toggled twice"
  /\ nLyrics = TwoLines
  /\ nResult[2].words = LongFirstWordLine.words
  /\ mergeSentenceWords(nLyrics) # nLyrics

(***************************************************************************)
(* Strict parser runs                                                      *)
(***************************************************************************)
\* raw words: two that pass validation and one for each way of failing it
RawWords ==
  { [data |-> <<" ", "y", " ">>, startTime |-> 0, endTime |-> 100],
    [data |-> <<"x">>, startTime |-> 50, endTime |-> 60],
    [data |-> <<" ">>, startTime |-> 0, endTime |-> 100],
    [data |-> <<"x">>, startTime |-> -10, endTime |-> 50],
    [data |-> <<"x">>, startTime |-> 100, endTime |-> 100],
    [data |-> <<"x">>, startTime |-> 200, endTime |-> 150],
    [data |-> <<"z">>, startTime |-> 0] }

RawSentences ==
  { [words |-> ws] : ws \in UNION { [1..n -> RawWords] : n \in 0..MaxWords } }

\* a file of three sentences: the middle one loses all its words
ThreeSentences ==
  [sentences |->
    << [words |-> << [data |-> <<"x">>, startTime |-> 50, endTime |-> 60] >>],
       [words |-> << [data |-> <<" ">>, startTime |-> 0, endTime |-> 100] >>],
       [words |-> << [data |-> <<"x">>, startTime |-> -10, endTime |-> 50],
                     [data |-> <<" ", "y", " ">>, startTime |-> 0, endTime |-> 100] >>] >>]

RawLyricData ==
  { [sentences |-> ss] : ss \in UNION { [1..n -> RawSentences] : n \in 0..MaxLines } }
    \cup { ThreeSentences, Null }

InitParse ==
  /\ pData \in RawLyricData
  /\ pResult = <<>>
  /\ pPc = "ready"
  /\ NormIdle
  /\ LocIdle
  /\ WordIdle
  /\ StoresIdle

CallParseLyricData ==
  /\ pPc = "ready"
  /\ pResult' = parseLyricData(pData)
  /\ pPc' = "done"
  /\ UNCHANGED <<pData, normVars, locVars, wordVars, storeVars>>

NextParse == CallParseLyricData

SpecParse == InitParse /\ [][NextParse]_vars

(***************************************************************************)
(* Properties of parseLyricData                                            *)
(***************************************************************************)
\* the validation the specification states for a raw word
SurvivesValidation(word) ==
  /\ "data" \in DOMAIN word /\ "startTime" \in DOMAIN word /\ "endTime" \in DOMAIN word
  /\ Trim(word.data) # <<>>
  /\ word.startTime >= 0
  /\ word.endTime > word.startTime

HasSurvivor(sentence) == \E i \in 1..Len(sentence.words) : SurvivesValidation(sentence.words[i])

\* C17: the strict parser keeps exactly the words whose trimmed text is
\* non-empty, whose startTime >= 0 and whose endTime > startTime, in source
\* order; it drops every line left without a word, keeps the other lines in
\* source order and sets each line's text to the surviving word texts joined
\* by single spaces; when every word fails validation the result is empty.
C17_StrictParser ==
  (pPc = "done" /\ pData # Null) =>
    LET kept == SelectSeq(pData.sentences, HasSurvivor)
    IN /\ Len(pResult) = Len(kept)
       /\ \A l \in 1..Len(kept) :
            LET survivors == SelectSeq(kept[l].words, SurvivesValidation)
            IN /\ Len(pResult[l].words) = Len(survivors)
               /\ \A w \in 1..Len(survivors) :
                    /\ pResult[l].words[w].text = Trim(survivors[w].data)
                    /\ pResult[l].words[w].startTime = survivors[w].startTime
                    /\ pResult[l].words[w].endTime = survivors[w].endTime
               /\ pResult[l].text = JoinText(pResult[l].words)
       /\ (\A s \in 1..Len(pData.sentences) : ~HasSurvivor(pData.sentences[s]))
            => pResult = <<>>

C17_Witness ==
  /\ pPc = "done"
  /\ pData = ThreeSentences
  /\ Len(pResult) = 2
  /\ pResult[2].text = <<"y">>

(***************************************************************************)
(* Locator runs: a fixed timeline queried at strictly increasing           *)
(* timestamps, one playback tick at a time.                                *)
(***************************************************************************)
LineStarts == {0, 20, 100}
LineEnds == {10, 30, 200}
Timestamps == {-5, 0, 10, 25, 50, 150, 250}

\* the locator reads only the bounds of a line
LocLineSeqs(n) ==
  { [i \in 1..n |-> [startTime |-> f[i][1], endTime |-> f[i][2]]] :
      f \in [1..n -> LineStarts \X LineEnds] }

InitLocator ==
  /\ locLines \in UNION { LocLineSeqs(n) : n \in 0..MaxLocLines }
  /\ locTime = 0
  /\ locIndex = -1
  /\ locPrevIndex = -1
  /\ locCalls = 0
  /\ NormIdle
  /\ WordIdle
  /\ ParseIdle
  /\ StoresIdle

ProgressTick(currentTimeMs) ==
  /\ locCalls = 0 \/ currentTimeMs > locTime
  /\ locTime' = currentTimeMs
  /\ locPrevIndex' = locIndex
  /\ locIndex' = getCurrentLyricIndex(locLines, currentTimeMs)
  /\ locCalls' = IF locCalls < 2 THEN locCalls + 1 ELSE 2
  /\ UNCHANGED <<locLines, normVars, wordVars, parseVars, storeVars>>

NextLocator == \E t \in Timestamps : ProgressTick(t)

SpecLocator == InitLocator /\ [][NextLocator]_vars

(***************************************************************************)
(* Properties of getCurrentLyricIndex                                      *)
(***************************************************************************)
Located == locCalls > 0

\* positions (1-based) of the lines whose closed interval contains the time
Containing ==
  { i \in 1..Len(locLines) :
      locLines[i].startTime <= locTime /\ locTime <= locLines[i].endTime }

\* positions (1-based) of the lines that have started by the time
Started == { i \in 1..Len(locLines) : locLines[i].startTime <= locTime }

\* C7: for every line sequence, the empty one included, the locator returns
\* -1 when the timestamp is before the first line's startTime and otherwise
\* an index i with 0 <= i < lines.length; it never returns an index that
\* addresses no line.
C7_IndexAddressesALine ==
  Located =>
    /\ locIndex = -1 \/ (0 <= locIndex /\ locIndex < Len(locLines))
    /\ Len(locLines) > 0 =>
         IF locTime < locLines[1].startTime
         THEN locIndex = -1
         ELSE 0 <= locIndex /\ locIndex < Len(locLines)

\* C8: for a non-empty line sequence and t >= lines[0].startTime, when some
\* line's closed interval contains t the locator returns the smallest index
\* of such a line.
C8_FirstContainingLine ==
  (Located /\ Len(locLines) > 0 /\ locTime >= locLines[1].startTime
     /\ Containing # {}) =>
    /\ locIndex + 1 \in Containing
    /\ \A i \in Containing : locIndex + 1 <= i

C8_Witness ==
  /\ Located /\ Len(locLines) > 1 /\ locTime >= locLines[1].startTime
  /\ Cardinality(Containing) > 1
  /\ locTime = locLines[locIndex + 1].endTime
  /\ locIndex = 0

\* C9: for a non-empty line sequence and t >= lines[0].startTime that no
\* line's closed interval contains, the locator returns the index of the last
\* line whose startTime <= t, which is the last index once t is past every
\* line's bounds.
C9_StickyThroughGap ==
  (Located /\ Len(locLines) > 0 /\ locTime >= locLines[1].startTime
     /\ Containing = {}) =>
    /\ locIndex + 1 \in Started
    /\ \A i \in Started : i <= locIndex + 1
    /\ (\A i \in 1..Len(locLines) :
          locTime > locLines[i].startTime /\ locTime > locLines[i].endTime)
        => locIndex = Len(locLines) - 1

C9_Witness ==
  /\ Located /\ Len(locLines) > 2 /\ locTime >= locLines[1].startTime
  /\ Containing = {}
  /\ locIndex = 1
  /\ Cardinality(Started) = 2

\* line startTimes are non-decreasing in sequence order
Chronological(lines) ==
  \A i \in 1..Len(lines) : \A j \in 1..Len(lines) :
    i <= j => lines[i].startTime <= lines[j].startTime

\* C10 as stated: for any fixed line sequence and strictly increasing
\* timestamps the returned indices never decrease.
C10_Monotonic_AsStated ==
  locCalls >= 2 => locPrevIndex <= locIndex

\* C10 amended: for a fixed line sequence whose startTimes are non-decreasing
\* in sequence order, and strictly increasing timestamps, the returned
\* indices never decrease.
C10_MonotonicOnChronological ==
  (locCalls >= 2 /\ Chronological(locLines)) => locPrevIndex <= locIndex

C10_Witness ==
  /\ locCalls >= 2 /\ Chronological(locLines) /\ Len(locLines) >= 2
  /\ locPrevIndex = 0 /\ locIndex = 1
  /\ Containing = {}

(***************************************************************************)
(* Word locator runs: one line, parsed or normalized, queried at any       *)
(* timestamps in any order.                                                *)
(***************************************************************************)
WordTimestamps == {-5, 0, 100, 320, 350, 450}

\* two words in time order with silence between them
GappedLines ==
  { LineOf(<< [text |-> <<"a">>, startTime |-> 0, endTime |-> e],
              [text |-> <<"b">>, startTime |-> 400, endTime |-> 500] >>) :
      e \in {100, 300} }

\* lines as the parsers build them and as normalizeTiming returns them
WordLocatorLines ==
  InputLines \cup GappedLines
    \cup { normalizeLine(lyric, delayMs) : lyric \in InputLines, delayMs \in Delays }

InitWordLocator ==
  /\ wLine \in WordLocatorLines
  /\ wTime = 0
  /\ wIndex = -1
  /\ wCalls = 0
  /\ NormIdle
  /\ LocIdle
  /\ ParseIdle
  /\ StoresIdle

LocateWord(currentTimeMs) ==
  /\ wTime' = currentTimeMs
  /\ wIndex' = getCurrentWordIndex(wLine, currentTimeMs)
  /\ wCalls' = 1
  /\ UNCHANGED <<wLine, normVars, locVars, parseVars, storeVars>>

NextWordLocator == \E t \in WordTimestamps : LocateWord(t)

SpecWordLocator == InitWordLocator /\ [][NextWordLocator]_vars

(***************************************************************************)
(* Properties of getCurrentWordIndex                                       *)
(***************************************************************************)
\* positions (1-based) of the words whose closed interval contains the time
ContainingWords ==
  { i \in 1..Len(wLine.words) :
      wLine.words[i].startTime <= wTime /\ wTime <= wLine.words[i].endTime }

\* C11: for every line and timestamp, getCurrentWordIndex returns -1 only
\* when the timestamp is before the first word's startTime, returns
\* words.length only when the timestamp is past the last word's endTime, and
\* otherwise returns the index of the first word whose closed interval
\* [startTime, endTime] contains the timestamp.
C11_WordIndexContract ==
  wCalls > 0 =>
    LET words == wLine.words
    IN /\ wIndex = -1 => wTime < words[1].startTime
       /\ wIndex = Len(words) => wTime > words[Len(words)].endTime
       /\ wIndex \notin {-1, Len(words)} =>
            /\ wIndex + 1 \in ContainingWords
            /\ \A i \in ContainingWords : wIndex + 1 <= i

(***************************************************************************)
(* Raw data objects.  An object is [id, val]: id is its identity (two      *)
(* objects are the same reference iff their ids are equal) and val its     *)
(* LyricData content, which is never changed in place.                     *)
(***************************************************************************)
RawWord(data, startTime, endTime) ==
  [data |-> data, startTime |-> startTime, endTime |-> endTime]

\* stands for the bundled lyrics/lyric.json
DefaultLyricContent ==
  [err |-> 0,
   data |-> [sentences |->
     << [words |-> << RawWord(<<"a">>, 0, 100), RawWord(<<"b">>, 50, 150) >>],
        [words |-> << [data |-> <<"c">>, startTime |-> 400] >>] >>]]

\* an uploaded file: blank and padded words, no endTime on the last word
UploadContent ==
  [err |-> 0,
   data |-> [sentences |->
     << [words |-> << RawWord(<<" ", "x">>, 0, 400), RawWord(<<" ">>, 10, 20),
                      RawWord(<<"y", " ">>, 50, 150) >>],
        [words |-> << >>] >>]]

\* an uploaded file in which no word has text
BlankContent ==
  [err |-> 0,
   data |-> [sentences |-> << [words |-> << RawWord(<<" ">>, 0, 100) >>] >>]]

DefaultLyricData == [id |-> 0, val |-> DefaultLyricContent]

\* objects handed to the store by the upload collaborator
SongUpload == [id |-> 1, val |-> UploadContent]
BlankUpload == [id |-> 2, val |-> BlankContent]

\* identity of the objects JSON.parse creates during the k-th load
LoadedDataId(k) == 10 + 2 * k
LoadedCacheDataId(k) == 11 + 2 * k
LoadedArrayId(k) == 0 - (k + 1)

(***************************************************************************)
(* The processing pipeline of getProcessedLyrics (lyricStore.ts:153-168)   *)
(***************************************************************************)
\* variant that normalizes without the delay
ProcessLyrics_NoDelay(dataToProcess, delay, merge) ==
  LET parsed == parseLyricDataOptimized(dataToProcess.val)
      processed == IF merge THEN mergeSentenceWords(parsed) ELSE parsed
  IN IF Len(parsed) = 0 THEN <<>> ELSE normalizeTiming(processed, 0)

ProcessLyrics(dataToProcess, delay, merge) ==
  LET parsed == parseLyricDataOptimized(dataToProcess.val)
      processed == IF merge THEN mergeSentenceWords(parsed) ELSE parsed
  IN IF Len(parsed) = 0 THEN <<>> ELSE normalizeTiming(processed, delay)

(***************************************************************************)
(* storageStore.ts: debounced persistence                                  *)
(***************************************************************************)
\* JSON.stringify of a lyric snapshot: contents survive, identities do not
SerializeCustom(custom) ==
  IF custom = Null THEN Null
  ELSE [data |-> custom.data.val, fileName |-> custom.fileName]

SerializeLyric(data) ==
  [lyricDelay |-> data.lyricDelay,
   mergeSentences |-> data.mergeSentences,
   customLyricData |-> SerializeCustom(data.customLyricData)]

\* JSON.stringify of a ui snapshot
SerializeUi(data) ==
  [json |-> "ui", showUpload |-> data.showUpload, showSettings |-> data.showSettings]

\* JSON.stringify(data) in the timer callback (line 297)
Serialize(storeName, data) ==
  IF storeName = "lyric" THEN SerializeLyric(data) ELSE SerializeUi(data)

\* syncToStorage('ui', {...}) keeps the keys of STORE_CONFIGS (line 80)
UiSyncData(upload, settings, audioPlayer) ==
  [showUpload |-> upload, showSettings |-> settings]

\* syncToStorage('lyric', {...}) keeps the keys of STORE_CONFIGS (line 71)
LyricSyncData(delay, merge, custom) ==
  [lyricDelay |-> delay, mergeSentences |-> merge, customLyricData |-> custom]

\* StorageManager.setItem (lines 110-128): refused when space is lacking
SetItem(key, value) ==
  IF storageFull THEN localStorage ELSE [localStorage EXCEPT ![key] = value]

\* syncToStorage (lines 368-391) -> debouncedSync (lines 287-314): the
\* pending timer of the store is replaced by one carrying the new data
SyncToStorage(storeName, data) ==
  timeouts' = IF isInitialized THEN [timeouts EXCEPT ![storeName] = data]
              ELSE timeouts

\* the timer callback of debouncedSync (lines 295-311)
SyncTimerFires(storeName) ==
  /\ timeouts[storeName] # Null
  /\ LET serialized == Serialize(storeName, timeouts[storeName])
     IN IF lastSyncedData[storeName] # serialized
        THEN /\ localStorage' = SetItem(storeName, serialized)
             /\ lastSyncedData' = [lastSyncedData EXCEPT ![storeName] = serialized]
        ELSE UNCHANGED <<localStorage, lastSyncedData>>
  /\ timeouts' = [timeouts EXCEPT ![storeName] = Null]
  /\ UNCHANGED <<isInitialized, storageFull, lyricVars, obsVars, utilVars, viewVars>>

\* initializeStorage (lines 329-363)
InitializeStorage ==
  /\ ~isInitialized
  /\ isInitialized' = TRUE
  /\ lastSyncedData' = [n \in StoreNames |->
        IF localStorage[n] # Null THEN localStorage[n] ELSE lastSyncedData[n]]
  /\ UNCHANGED <<localStorage, timeouts, storageFull, lyricVars, obsVars, utilVars, viewVars>>

\* defaultValues of the lyric store (lines 72-76)
LyricDefaultValues ==
  [lyricDelay |-> 0, mergeSentences |-> FALSE, customLyricData |-> Null]

\* { ...config.defaultValues, ...storeData } (lines 475-478)
MergeDefaults(defaults, storeData) ==
  [k \in DOMAIN defaults \cup DOMAIN storeData |->
     IF k \in DOMAIN storeData THEN storeData[k] ELSE defaults[k]]

\* importSettings (lines 456-493) for a file that carries lyric settings
ImportSettings(storeData) ==
  /\ LET serialized == MergeDefaults(LyricDefaultValues, storeData)
     IN /\ localStorage' = SetItem("lyric", serialized)
        /\ lastSyncedData' = [lastSyncedData EXCEPT !["lyric"] = serialized]
  /\ UNCHANGED <<isInitialized, timeouts, storageFull, lyricVars, obsVars, utilVars, viewVars>>

(***************************************************************************)
(* lyricStore.ts                                                           *)
(***************************************************************************)
\* every store operation other than getProcessedLyrics ends a run of reads
OtherOp ==
  /\ getsSinceOp' = 0
  /\ UNCHANGED <<returned, sameAsPrev, allocs>>

\* setCurrentLyricData (lines 60-62)
SetCurrentLyricData(data) ==
  /\ currentLyricData' = data
  /\ parsedCache' = Null
  /\ OtherOp
  /\ justCleared' = FALSE
  /\ UNCHANGED <<lyricDelay, mergeSentences, customLyricData, storageVars, loads,
                 utilVars, viewVars>>

\* variant of clamp without the lower bound
Clamp_UpperOnly(n, lower, upper) == IF n > upper THEN upper ELSE n

\* lodash clamp(toNumber(delay), -10000, 10000) (line 65)
Clamp(n, lower, upper) == IF n < lower THEN lower ELSE IF n > upper THEN upper ELSE n

\* setLyricDelay (lines 64-72)
SetLyricDelay(delay) ==
  LET safeDelay == Clamp(delay, -10000, 10000)
  IN /\ lyricDelay' = safeDelay
     /\ parsedCache' = Null
     /\ SyncToStorage("lyric", LyricSyncData(safeDelay, mergeSentences, customLyricData))
     /\ OtherOp
     /\ justCleared' = FALSE
     /\ UNCHANGED <<currentLyricData, mergeSentences, customLyricData,
                    isInitialized, localStorage, lastSyncedData, storageFull, loads,
                    utilVars, viewVars>>

\* setMergeSentences (lines 74-81)
SetMergeSentences(merge) ==
  /\ mergeSentences' = merge
  /\ parsedCache' = Null
  /\ SyncToStorage("lyric", LyricSyncData(lyricDelay, merge, customLyricData))
  /\ OtherOp
  /\ justCleared' = FALSE
  /\ UNCHANGED <<currentLyricData, lyricDelay, customLyricData,
                 isInitialized, localStorage, lastSyncedData, storageFull, loads,
                 utilVars, viewVars>>

\* loadLyricFromData (lines 86-117)
LoadLyricFromData(data, fileName) ==
  LET customData == [data |-> data, fileName |-> fileName]
  IN /\ currentLyricData' = data
     /\ customLyricData' = customData
     /\ parsedCache' = Null
     /\ SyncToStorage("lyric", LyricSyncData(lyricDelay, mergeSentences, customData))
     /\ OtherOp
     /\ justCleared' = FALSE
     /\ UNCHANGED <<lyricDelay, mergeSentences,
                    isInitialized, localStorage, lastSyncedData, storageFull, loads,
                    utilVars, viewVars>>

\* variant of isCacheValid that compares the data reference only
isCacheValid_DataOnly(cache, data, delay, merge) ==
  IF cache = Null \/ data = Null THEN FALSE
  ELSE cache.originalData.id = data.id

\* isCacheValid (lines 201-217) on the store fields it reads
isCacheValid(cache, data, delay, merge) ==
  IF cache = Null \/ data = Null THEN FALSE
  ELSE LET settingsMatch == cache.lyricDelay = delay /\ cache.mergeSentences = merge
           dataMatch == cache.originalData.id = data.id
       IN settingsMatch /\ dataMatch

\* Step 1 of getProcessedLyrics (lines 128-142): the data to process
DataToProcess ==
  IF currentLyricData # Null THEN currentLyricData
  ELSE IF customLyricData # Null THEN customLyricData.data
  ELSE DefaultLyricData

\* the store's cache after step 1: setCurrentLyricData has emptied it when
\* there was no current data
CacheAfterStep1 == IF currentLyricData = Null THEN Null ELSE parsedCache

\* Step 2 (line 145): the snapshot read on entry is returned when the store
\* says its cache is valid
IsCacheHit ==
  /\ parsedCache # Null
  /\ isCacheValid(CacheAfterStep1, DataToProcess, lyricDelay, mergeSentences)

\* getProcessedLyrics (lines 124-196)
GetProcessedLyrics ==
  /\ getsSinceOp' = IF getsSinceOp < 2 THEN getsSinceOp + 1 ELSE 2
  /\ justCleared' = FALSE
  /\ currentLyricData' = DataToProcess
  /\ IF IsCacheHit
     THEN /\ returned' = parsedCache.processedLyrics
          /\ sameAsPrev' = (returned # Null /\ returned.id = parsedCache.processedLyrics.id)
          /\ parsedCache' = CacheAfterStep1
          /\ UNCHANGED <<allocs, timeouts>>
     ELSE /\ allocs < MaxAllocs
          /\ sameAsPrev' = FALSE
          /\ allocs' = allocs + 1
          /\ LET parsed == parseLyricDataOptimized(DataToProcess.val)
                 withDelay == [id |-> allocs + 1,
                               lines |-> ProcessLyrics(DataToProcess, lyricDelay,
                                                       mergeSentences)]
                 cache == [originalData |-> DataToProcess,
                           parsedLyrics |-> parsed,
                           processedLyrics |-> withDelay,
                           fileName |-> IF customLyricData # Null
                                        THEN customLyricData.fileName
                                        ELSE "default-lyric.json",
                           lyricDelay |-> lyricDelay,
                           mergeSentences |-> mergeSentences]
             IN IF Len(parsed) = 0
                THEN /\ returned' = [id |-> allocs + 1, lines |-> <<>>]
                     /\ parsedCache' = CacheAfterStep1
                     /\ UNCHANGED timeouts
                ELSE /\ returned' = withDelay
                     /\ parsedCache' = cache
                     /\ SyncToStorage("lyric",
                          LyricSyncData(lyricDelay, mergeSentences, customLyricData))
  /\ UNCHANGED <<lyricDelay, mergeSentences, customLyricData,
                 isInitialized, localStorage, lastSyncedData, storageFull, loads,
                 utilVars, viewVars>>

\* variant of clearCache that leaves the cache slot as it is
ClearCache_KeepsCache ==
  /\ OtherOp
  /\ justCleared' = (parsedCache # Null)
  /\ UNCHANGED <<currentLyricData, lyricDelay, mergeSentences, customLyricData,
                 parsedCache, storageVars, loads, utilVars, viewVars>>

\* clearCache (lines 222-224)
ClearCache ==
  /\ parsedCache' = Null
  /\ OtherOp
  /\ justCleared' = (parsedCache # Null)
  /\ UNCHANGED <<currentLyricData, lyricDelay, mergeSentences, customLyricData,
                 storageVars, loads, utilVars, viewVars>>

\* useLyricLoader.resetToDefault (hooks, lines 66-69): setCurrentLyricData(null)
\* followed by clearCache() on the cache just emptied
ResetToDefault ==
  /\ currentLyricData' = Null
  /\ parsedCache' = Null
  /\ OtherOp
  /\ justCleared' = FALSE
  /\ UNCHANGED <<lyricDelay, mergeSentences, customLyricData, storageVars, loads,
                 utilVars, viewVars>>

\* resetLyricSettings (lines 226-237)
ResetLyricSettings ==
  /\ lyricDelay' = 0
  /\ mergeSentences' = TRUE
  /\ SyncToStorage("lyric", LyricSyncData(0, TRUE, customLyricData))
  /\ OtherOp
  /\ justCleared' = FALSE
  /\ UNCHANGED <<currentLyricData, customLyricData, parsedCache,
                 isInitialized, localStorage, lastSyncedData, storageFull, loads,
                 utilVars, viewVars>>

\* resetAll (lines 239-260)
ResetAll ==
  /\ currentLyricData' = Null
  /\ lyricDelay' = 0
  /\ mergeSentences' = FALSE
  /\ customLyricData' = Null
  /\ parsedCache' = Null
  /\ SyncToStorage("lyric", LyricSyncData(0, FALSE, Null))
  /\ OtherOp
  /\ justCleared' = FALSE
  /\ UNCHANGED <<isInitialized, localStorage, lastSyncedData, storageFull, loads,
                 utilVars, viewVars>>

\* JSON.parse of a stored cache entry: new objects with the stored contents
DeserializeCache(saved, k) ==
  IF saved = Null THEN Null
  ELSE [originalData |-> [id |-> LoadedCacheDataId(k), val |-> saved.originalData],
        parsedLyrics |-> saved.parsedLyrics,
        processedLyrics |-> [id |-> LoadedArrayId(k), lines |-> saved.processedLyrics],
        fileName |-> saved.fileName,
        lyricDelay |-> saved.lyricDelay,
        mergeSentences |-> saved.mergeSentences]

\* loadFromStorage (lines 262-303)
LoadFromStorage ==
  LET savedData == localStorage["lyric"]
  IN /\ IF savedData = Null
        THEN /\ currentLyricData' = DefaultLyricData
             /\ UNCHANGED <<lyricDelay, mergeSentences, customLyricData, parsedCache, loads>>
        ELSE /\ loads < MaxLoads
             /\ loads' = loads + 1
             /\ lyricDelay' = savedData.lyricDelay
             /\ mergeSentences' = savedData.mergeSentences
             /\ parsedCache' = IF Has(savedData, "parsedCache")
                               THEN DeserializeCache(savedData.parsedCache, loads)
                               ELSE parsedCache
             /\ IF savedData.customLyricData # Null
                THEN LET data == [id |-> LoadedDataId(loads),
                                  val |-> savedData.customLyricData.data]
                     IN /\ customLyricData' =
                             [data |-> data,
                              fileName |-> savedData.customLyricData.fileName]
                        /\ currentLyricData' = data
                ELSE /\ customLyricData' = Null
                     /\ currentLyricData' = DefaultLyricData
     /\ OtherOp
     /\ justCleared' = FALSE
     /\ UNCHANGED <<storageVars, utilVars, viewVars>>

(***************************************************************************)
(* The lyric store with its persistence                                    *)
(***************************************************************************)
DelayInputs == {-400}
FileNames == {"song.json"}

\* lyric settings an imported settings file may carry
ImportedLyricSettings ==
  { [lyricDelay |-> 200],
    [lyricDelay |-> 0,
     mergeSentences |-> FALSE,
     customLyricData |-> [data |-> UploadContent, fileName |-> "song.json"],
     parsedCache |-> [originalData |-> UploadContent,
                      parsedLyrics |-> parseLyricDataOptimized(UploadContent),
                      processedLyrics |-> parseLyricDataOptimized(UploadContent),
                      fileName |-> "song.json",
                      lyricDelay |-> 0,
                      mergeSentences |-> FALSE]] }

Init ==
  /\ ParseIdle
  /\ StoresIdle
  /\ NormIdle
  /\ LocIdle
  /\ WordIdle

Next ==
  \/ \E data \in {BlankUpload, Null} : SetCurrentLyricData(data)
  \/ \E delay \in DelayInputs : SetLyricDelay(delay)
  \/ \E merge \in BOOLEAN : SetMergeSentences(merge)
  \/ \E fileName \in FileNames : LoadLyricFromData(SongUpload, fileName)
  \/ GetProcessedLyrics
  \/ ClearCache
  \/ ResetToDefault
  \/ ResetLyricSettings
  \/ ResetAll
  \/ LoadFromStorage
  \/ InitializeStorage
  \/ SyncTimerFires("lyric")
  \/ \E storeData \in ImportedLyricSettings : ImportSettings(storeData)

Spec == Init /\ [][Next]_vars

(***************************************************************************)
(* uiStore.ts with its persistence                                         *)
(***************************************************************************)
\* clearStorage(storeName) (storageStore.ts:412-426): the pending timer of
\* debouncedSync is not touched
ClearStorage(storeName) ==
  /\ localStorage' = [localStorage EXCEPT ![storeName] = Null]
  /\ lastSyncedData' = [lastSyncedData EXCEPT ![storeName] = Null]
  /\ UNCHANGED timeouts

\* the tail shared by the ui setters: sync the three flags as they now are
UiSync ==
  /\ SyncToStorage("ui", UiSyncData(showUpload', showSettings', showAudioPlayer'))
  /\ uiJustReset' = FALSE
  /\ UNCHANGED <<isInitialized, localStorage, lastSyncedData, storageFull,
                 lyricVars, obsVars, playVars, utilVars>>

\* variant of setShowUpload that leaves the other dialogs as they are
SetShowUpload_KeepsOthers(show) ==
  /\ showUpload' = show
  /\ UNCHANGED <<showSettings, showAudioPlayer>>
  /\ UiSync

\* setShowUpload (uiStore.ts:28-42)
SetShowUpload(show) ==
  /\ IF show
     THEN showUpload' = TRUE /\ showSettings' = FALSE /\ showAudioPlayer' = FALSE
     ELSE showUpload' = FALSE /\ UNCHANGED <<showSettings, showAudioPlayer>>
  /\ UiSync

\* setShowSettings (uiStore.ts:44-58)
SetShowSettings(show) ==
  /\ IF show
     THEN showSettings' = TRUE /\ showUpload' = FALSE /\ showAudioPlayer' = FALSE
     ELSE showSettings' = FALSE /\ UNCHANGED <<showUpload, showAudioPlayer>>
  /\ UiSync

\* setShowAudioPlayer (uiStore.ts:60-74)
SetShowAudioPlayer(show) ==
  /\ IF show
     THEN showAudioPlayer' = TRUE /\ showUpload' = FALSE /\ showSettings' = FALSE
     ELSE showAudioPlayer' = FALSE /\ UNCHANGED <<showUpload, showSettings>>
  /\ UiSync

\* toggleUpload (uiStore.ts:76-91): the branches of setShowUpload, chosen by
\* the flag as it is
ToggleUpload == SetShowUpload(~showUpload)

\* toggleSettings (uiStore.ts:93-108)
ToggleSettings == SetShowSettings(~showSettings)

\* toggleAudioPlayer (uiStore.ts:110-125)
ToggleAudioPlayer == SetShowAudioPlayer(~showAudioPlayer)

\* closeAllModals (uiStore.ts:127-134)
CloseAllModals ==
  /\ showUpload' = FALSE /\ showSettings' = FALSE /\ showAudioPlayer' = FALSE
  /\ UiSync

\* resetAll (uiStore.ts:136-143)
UiResetAll ==
  /\ showUpload' = FALSE /\ showSettings' = FALSE /\ showAudioPlayer' = FALSE
  /\ IF isInitialized THEN ClearStorage("ui")
     ELSE UNCHANGED <<localStorage, lastSyncedData, timeouts>>
  /\ uiJustReset' = TRUE
  /\ UNCHANGED <<isInitialized, storageFull, lyricVars, obsVars, playVars, utilVars>>

\* loadFromStorage (uiStore.ts:145-151)
UiLoadFromStorage ==
  LET savedData == localStorage["ui"]
  IN /\ IF savedData = Null
        THEN UNCHANGED <<showUpload, showSettings>>
        ELSE /\ showUpload' = savedData.showUpload
             /\ showSettings' = savedData.showSettings
     /\ uiJustReset' = FALSE
     /\ UNCHANGED <<showAudioPlayer, storageVars, lyricVars, obsVars, playVars, utilVars>>

\* the space StorageManager.setItem measures (storageStore.ts:113-116)
\* shrinks and grows with what the other stores keep (fonts, audio files)
StorageSpaceChanges(full) ==
  /\ storageFull # full
  /\ storageFull' = full
  /\ UNCHANGED <<isInitialized, localStorage, timeouts, lastSyncedData,
                 lyricVars, obsVars, viewVars, utilVars>>

NextUi ==
  \/ \E full \in BOOLEAN : StorageSpaceChanges(full)
  \/ \E show \in BOOLEAN : SetShowUpload(show)
  \/ \E show \in BOOLEAN : SetShowSettings(show)
  \/ \E show \in BOOLEAN : SetShowAudioPlayer(show)
  \/ ToggleUpload
  \/ ToggleSettings
  \/ ToggleAudioPlayer
  \/ CloseAllModals
  \/ UiResetAll
  \/ UiLoadFromStorage
  \/ InitializeStorage
  \/ SyncTimerFires("ui")

SpecUi == Init /\ [][NextUi]_vars

\* the dialogs driven by their setters, toggles and resets only
NextModals ==
  \/ \E full \in BOOLEAN : StorageSpaceChanges(full)
  \/ \E show \in BOOLEAN : SetShowUpload(show)
  \/ \E show \in BOOLEAN : SetShowSettings(show)
  \/ \E show \in BOOLEAN : SetShowAudioPlayer(show)
  \/ ToggleUpload
  \/ ToggleSettings
  \/ ToggleAudioPlayer
  \/ CloseAllModals
  \/ UiResetAll
  \/ InitializeStorage
  \/ SyncTimerFires("ui")

SpecModals == Init /\ [][NextModals]_vars

\* C20: a store's resetAll is a complete reset including storage: once
\* resetAll has run and every debounced sync timer pending at that moment has
\* fired, localStorage holds no entry for the store; a write scheduled by a
\* setter shortly before the reset does not re-create the entry.
C20_ResetAllClearsStorage ==
  (uiJustReset /\ timeouts["ui"] = Null) => localStorage["ui"] = Null

\* C27: after any sequence of setShowUpload, setShowSettings,
\* setShowAudioPlayer, toggleUpload, toggleSettings, toggleAudioPlayer,
\* closeAllModals and resetAll from the initial state, at most one of
\* showUpload, showSettings and showAudioPlayer is true.
C27_AtMostOneModal ==
  /\ ~(showUpload /\ showSettings)
  /\ ~(showUpload /\ showAudioPlayer)
  /\ ~(showSettings /\ showAudioPlayer)

\* the audio player was opened while the upload dialog, already persisted
\* as open, was showing
C27_Witness ==
  /\ showAudioPlayer
  /\ localStorage["ui"] # Null
  /\ localStorage["ui"].showUpload
  /\ timeouts["ui"] # Null
  /\ ~timeouts["ui"].showUpload

(***************************************************************************)
(* Playback: the audio transport reports positions in any order while the  *)
(* view reads the processed timeline and the settings change.              *)
(***************************************************************************)
\* stands for Number.MAX_SAFE_INTEGER, above every position reported
MAX_SAFE_INTEGER == 2147483647

\* progress.playedSeconds, in thousandths of a second
PlayedSeconds == {-1000, 0, 350, 1000}

\* what the tick records for a position: the first answers given for it on
\* the timeline read, and whether the position was asked again
Answer(linesId, lyricIndex, sync, again) ==
  [id |-> linesId, lyricIndex |-> lyricIndex, sync |-> sync, again |-> again]

\* variant of the tick in which the line index never moves backwards
PlaybackTick_NeverBackwards(playedSeconds) ==
  LET currentTimeMs == Clamp(playedSeconds, 0, MAX_SAFE_INTEGER)
      currentLyricIndex ==
        Max2(playLyricIndex, getCurrentLyricIndex(returned.lines, currentTimeMs))
      sync == syncLyrics(returned.lines, currentTimeMs)
      known == answers[currentTimeMs] # Null /\ answers[currentTimeMs].id = returned.id
  IN /\ returned # Null
     /\ currentTime' = currentTimeMs
     /\ playLinesId' = returned.id
     /\ playLyricIndex' = currentLyricIndex
     /\ playSync' = sync
     /\ answers' = [answers EXCEPT ![currentTimeMs] =
                      IF known THEN [answers[currentTimeMs] EXCEPT !.again = TRUE]
                      ELSE Answer(returned.id, currentLyricIndex, sync, FALSE)]
     /\ UNCHANGED <<lyricVars, storageVars, obsVars, uiVars, utilVars>>

\* handleAudioProgress (useKeyboardHandlers.ts:185-198) on the timeline the
\* view holds, with the word lookup of syncLyrics at the same position
PlaybackTick(playedSeconds) ==
  LET currentTimeMs == Clamp(playedSeconds, 0, MAX_SAFE_INTEGER)
      currentLyricIndex == getCurrentLyricIndex(returned.lines, currentTimeMs)
      sync == syncLyrics(returned.lines, currentTimeMs)
      known == answers[currentTimeMs] # Null /\ answers[currentTimeMs].id = returned.id
  IN /\ returned # Null
     /\ currentTime' = currentTimeMs
     /\ playLinesId' = returned.id
     /\ playLyricIndex' = currentLyricIndex
     /\ playSync' = sync
     /\ answers' = [answers EXCEPT ![currentTimeMs] =
                      IF known THEN [answers[currentTimeMs] EXCEPT !.again = TRUE]
                      ELSE Answer(returned.id, currentLyricIndex, sync, FALSE)]
     /\ UNCHANGED <<lyricVars, storageVars, obsVars, uiVars, utilVars>>

NextPlayback ==
  \/ \E playedSeconds \in PlayedSeconds : PlaybackTick(playedSeconds)
  \/ GetProcessedLyrics
  \/ \E merge \in BOOLEAN : SetMergeSentences(merge)
  \/ \E delay \in DelayInputs : SetLyricDelay(delay)

SpecPlayback == Init /\ [][NextPlayback]_vars

\* the answers of the latest tick are the first answers given for its
\* position on the same timeline
AnswersDoNotDependOnHistory ==
  (answers[currentTime] # Null /\ answers[currentTime].id = playLinesId) =>
    /\ answers[currentTime].lyricIndex = playLyricIndex
    /\ answers[currentTime].sync = playSync

DelayRange == {-20000, -10001, -10000, -400, 0, 200, 10000, 10001}

\* the delays the store can hold after setLyricDelay
StoredDelays == { Clamp(d, -10000, 10000) : d \in DelayRange }

NextDelay ==
  \/ \E delay \in DelayRange : SetLyricDelay(delay)
  \/ ResetLyricSettings
  \/ GetProcessedLyrics
  \/ InitializeStorage
  \/ SyncTimerFires("lyric")

SpecDelay == Init /\ [][NextDelay]_vars

\* C12: for the same raw data with a non-empty timeline, after the delay
\* changed from d1 to d2 the next getProcessedLyrics call recomputes (it does
\* not return the object returned for d1) and every line's startTime differs
\* from the corresponding line's startTime in the previous result by exactly
\* d2 - d1.
C12_DelayChangeShiftsLines ==
  [][ (getsSinceOp = 0 /\ getsSinceOp' = 1 /\ returned # Null) =>
        \A d1 \in StoredDelays :
          ( /\ d1 # lyricDelay
            /\ Len(returned.lines) > 0
            /\ returned.lines = ProcessLyrics(DataToProcess, d1, mergeSentences) ) =>
            /\ returned'.id # returned.id
            /\ Len(returned'.lines) = Len(returned.lines)
            /\ \A l \in 1..Len(returned.lines) :
                 returned'.lines[l].startTime - returned.lines[l].startTime
                   = lyricDelay - d1 ]_vars

\* the second timeline of a run in which only the delay was ever changed
C12_Witness ==
  /\ getsSinceOp = 1
  /\ returned.id = 2
  /\ Len(returned.lines) > 1
  /\ lyricDelay = -10000
  /\ ~mergeSentences

\* C15: setLyricDelay(d) never rejects a value: for every integer d it
\* stores d when -10000 <= d <= 10000, -10000 when d < -10000 and 10000 when
\* d > 10000.
C15_DelayIsClamped ==
  [][ \A d \in DelayRange :
        /\ ENABLED SetLyricDelay(d)
        /\ SetLyricDelay(d) =>
             lyricDelay' = IF d < -10000 THEN -10000
                           ELSE IF d > 10000 THEN 10000 ELSE d ]_vars

C15_Witness ==
  /\ lyricDelay = 10000
  /\ timeouts["lyric"] # Null
  /\ timeouts["lyric"].lyricDelay = 10000

(***************************************************************************)
(* Settings files: the user imports a settings file, whose delay nothing   *)
(* has checked, and the lyric store loads what storage then holds.         *)
(***************************************************************************)
\* lyric settings of imported files, the delay in and out of range
ImportedDelaySettings ==
  { [lyricDelay |-> 200],
    [lyricDelay |-> 20000],
    [lyricDelay |-> -10001, mergeSentences |-> TRUE] }

NextImport ==
  \/ \E full \in BOOLEAN : StorageSpaceChanges(full)
  \/ \E storeData \in ImportedDelaySettings : ImportSettings(storeData)
  \/ LoadFromStorage
  \/ \E delay \in DelayRange : SetLyricDelay(delay)
  \/ ResetLyricSettings
  \/ ResetAll
  \/ InitializeStorage
  \/ SyncTimerFires("lyric")

SpecImport == Init /\ [][NextImport]_vars

\* C29: in every reachable state of the lyric store, after any sequence of
\* setLyricDelay, resetLyricSettings, resetAll, loadFromStorage and settings
\* import, lyricDelay lies in [-10000, 10000].
C29_DelayInRange ==
  lyricDelay >= -10000 /\ lyricDelay <= 10000

\* C30: whenever lastSyncedData holds a value for a store, localStorage
\* holds that same serialized value for the store.
C30_LastSyncedIsStored ==
  \A n \in StoreNames :
    lastSyncedData[n] # Null => localStorage[n] = lastSyncedData[n]

(***************************************************************************)
(* Debounced persistence of two stores side by side: lyric and ui setters  *)
(* call syncToStorage while timers of either store are pending.            *)
(***************************************************************************)
NextSync ==
  \/ \E full \in BOOLEAN : StorageSpaceChanges(full)
  \/ InitializeStorage
  \/ \E delay \in DelayInputs : SetLyricDelay(delay)
  \/ ResetLyricSettings
  \/ \E show \in BOOLEAN : SetShowUpload(show)
  \/ \E show \in BOOLEAN : SetShowSettings(show)
  \/ SyncTimerFires("lyric")
  \/ SyncTimerFires("ui")

SpecSync == Init /\ [][NextSync]_vars

\* what the latest syncToStorage call of a store passed: every operation of
\* NextSync that changes a store ends by passing the store's fields
StoreSnapshot(n) ==
  IF n = "lyric" THEN LyricSyncData(lyricDelay, mergeSentences, customLyricData)
  ELSE UiSyncData(showUpload, showSettings, showAudioPlayer)

\* the timer that closes a burst of calls for store n fires in this step
TimerFired(n) == timeouts[n] # Null /\ timeouts'[n] = Null

\* C26: storage sync is debounced per store: for a burst of syncToStorage
\* calls for one store, each made while the timer of the previous one is
\* pending, at most one localStorage write happens, when the timer of the
\* last call fires, carrying the last call's data; calls for other stores
\* neither cancel nor delay it; the write is skipped only when the
\* serialized data equals the data last synced for that store.
C26_DebouncedPerStore ==
  [][ \A n \in StoreNames :
        /\ localStorage'[n] # localStorage[n] => TimerFired(n)
        /\ TimerFired(n) =>
             LET serialized == Serialize(n, StoreSnapshot(n))
             IN IF serialized = lastSyncedData[n]
                THEN localStorage'[n] = localStorage[n]
                ELSE localStorage'[n] = serialized
        /\ \A m \in StoreNames \ {n} :
             timeouts'[m] # timeouts[m] => timeouts'[n] = timeouts[n]
        /\ timeouts[n] # Null => ENABLED SyncTimerFires(n) ]_vars

(***************************************************************************)
(* Properties of the processing cache                                      *)
(***************************************************************************)
\* a getProcessedLyrics call was the latest lyric-store operation
JustRead == getsSinceOp >= 1

\* C1: whatever store operations came before, the timeline returned by
\* getProcessedLyrics equals the one a fresh pipeline run produces from the
\* store's current raw data, lyricDelay and mergeSentences; a timeline
\* computed under an earlier data reference, delay or merge flag is never
\* returned.
C1_ReturnedTimelineIsCurrent ==
  JustRead =>
    /\ currentLyricData # Null
    /\ returned.lines = ProcessLyrics(currentLyricData, lyricDelay, mergeSentences)

\* a cache hit that survived another store operation, with a stale entry
\* having been replaced before
C1_Witness ==
  /\ getsSinceOp = 1
  /\ sameAsPrev
  /\ Len(returned.lines) > 0
  /\ returned.id > 1

\* C2: two consecutive getProcessedLyrics calls with no store operation in
\* between return the identical array (same reference), for every raw data
\* set, delay and merge flag.
C2_RepeatedReadIsIdentical ==
  getsSinceOp = 2 => sameAsPrev

\* the stages in the order parse, normalize(delay), merge when enabled
StagesInDocumentedOrder(lyricData, delay, merge) ==
  LET normalized == normalizeTiming(parseLyricDataOptimized(lyricData), delay)
  IN IF merge THEN mergeSentenceWords(normalized) ELSE normalized

\* C3: the timeline stored and returned on a miss equals the stages applied
\* in the order Parser, Normalizer(delayMs), Merger (when merge is enabled):
\* with merge enabled it is merge(normalize(parse(raw), delayMs)).
C3_StageOrder ==
  JustRead =>
    returned.lines =
      StagesInDocumentedOrder(currentLyricData.val, lyricDelay, mergeSentences)

\* the key of the cache entry is the store's current key
CacheKeyIsCurrent ==
  /\ currentLyricData # Null
  /\ parsedCache.originalData.id = currentLyricData.id
  /\ parsedCache.lyricDelay = lyricDelay
  /\ parsedCache.mergeSentences = mergeSentences

\* C13: in every reachable state of the lyric store a non-empty parsedCache
\* was computed for the current key (originalData is the current raw data
\* reference, its lyricDelay and mergeSentences equal the store's); every
\* operation that changes the data reference, the delay or the merge flag
\* leaves parsedCache empty.
C13_CacheMatchesCurrentKey ==
  parsedCache # Null => CacheKeyIsCurrent

\* C14: after clearCache() the next getProcessedLyrics call is a miss: it
\* reruns the pipeline and returns a newly computed timeline, not the object
\* cached before, even when data reference, delay and merge flag are unchanged.
C14_ClearForcesMiss ==
  [][ (justCleared /\ getsSinceOp' = 1) =>
        /\ allocs' = allocs + 1
        /\ returned'.id = allocs'
        /\ returned # Null => returned'.id # returned.id
        /\ returned'.lines = ProcessLyrics(DataToProcess, lyricDelay, mergeSentences) ]_vars

\* a timeline was returned and cached, then clearCache ran with the key
\* unchanged, and a further read can follow
C14_Witness ==
  /\ justCleared
  /\ parsedCache = Null
  /\ returned # Null
  /\ Len(returned.lines) > 0
  /\ returned.lines = ProcessLyrics(DataToProcess, lyricDelay, mergeSentences)
  /\ allocs < MaxAllocs

\* C18: every line of every timeline returned by getProcessedLyrics has at
\* least one word, its startTime equals its first word's startTime and its
\* endTime equals its last word's endTime, for every raw data set, delay and
\* merge flag.
C18_LineBoundsFollowWords ==
  returned # Null =>
    \A l \in 1..Len(returned.lines) :
      LET line == returned.lines[l]
      IN /\ Len(line.words) >= 1
         /\ line.startTime = line.words[1].startTime
         /\ line.endTime = line.words[Len(line.words)].endTime

C18_Witness ==
  /\ returned # Null
  /\ Len(returned.lines) = 2
  /\ Len(returned.lines[1].words) = 2
  /\ lyricDelay = -400
  /\ returned.lines[1].startTime = -400

\* a getProcessedLyrics step: it is counted, or it handed out a new array
GetStep ==
  /\ getsSinceOp' >= 1
  /\ getsSinceOp' # getsSinceOp \/ returned' # returned

\* the cache slot holds an entry computed for the current key
EntryForCurrentKey ==
  /\ parsedCache # Null
  /\ parsedCache.originalData.id = DataToProcess.id
  /\ parsedCache.lyricDelay = lyricDelay
  /\ parsedCache.mergeSentences = mergeSentences

\* C21: getProcessedLyrics is served from the cache if and only if an entry
\* exists whose originalData is reference-identical to the current raw data
\* and whose lyricDelay and mergeSentences equal the current settings; in
\* every other case the call recomputes and replaces the single cache slot
\* with the new tuple.
C21_HitIffKeyMatches ==
  [][ GetStep =>
        IF EntryForCurrentKey
        THEN /\ returned' = parsedCache.processedLyrics
             /\ parsedCache' = parsedCache
             /\ allocs' = allocs
        ELSE /\ allocs' = allocs + 1
             /\ returned'.lines = ProcessLyrics(DataToProcess, lyricDelay, mergeSentences)
             /\ parsedCache' # Null
             /\ parsedCache'.originalData.id = DataToProcess.id
             /\ parsedCache'.lyricDelay = lyricDelay
             /\ parsedCache'.mergeSentences = mergeSentences
             /\ parsedCache'.processedLyrics = returned' ]_vars

\* the state resetToDefault leaves: no current data, an empty cache, and no
\* read since
AfterResetToDefault ==
  /\ currentLyricData = Null
  /\ parsedCache = Null
  /\ getsSinceOp = 0

\* C25: after useLyricLoader.resetToDefault(), from any prior state (an
\* upload included), the next getProcessedLyrics call processes the bundled
\* default JSON, not previously uploaded data.
C25_ResetToDefaultReadsDefault ==
  [][ (AfterResetToDefault /\ GetStep) =>
        /\ currentLyricData' = DefaultLyricData
        /\ returned'.lines =
             ProcessLyrics(DefaultLyricData, lyricDelay, mergeSentences) ]_vars

====
